---- MODULE Spec2Model ----
(***************************************************************************)
(* Model of webhook_server.py: an HTTPServer whose WebhookHandler.do_POST  *)
(* decodes a JSON body, prints an audit record, sleeps one second and      *)
(* answers 200, or prints an error line and answers 400.                   *)
(***************************************************************************)
EXTENDS Integers, Sequences, FiniteSets, TLC

\* How many client requests a behaviour sends to the server.
NumRequests == 2

Requests == 1..NumRequests

----------------------------------------------------------------------------
(* JSON values.  Every value has the same three fields so that values of   *)
(* different JSON types can be compared: its type, its text (a string) and *)
(* its keys (an object).  An object's member values are fixed per key      *)
(* (MemberValue): the handler only ever prints them.                       *)

Absent == [type |-> "absent", str |-> "", keys |-> {}]
Null == [type |-> "null", str |-> "", keys |-> {}]
Str(s) == [type |-> "str", str |-> s, keys |-> {}]
Obj(ks) == [type |-> "obj", str |-> "", keys |-> ks]

PREDICTED == "PREDICTED_HIGH_FLEET_CPU_LOAD"
FAILURE == "UNEXPECTED_NODE_FAILURE"

FleetKeys == {"active_nodes", "avg_cpu_usage", "total_connections"}

\* The value a sub-object carries under a key, as print() shows it.
MemberValue(key) ==
  CASE key = "predicted_cpu_usage" -> "92.5"
    [] key = "prediction_horizon_minutes" -> "15"
    [] key = "confidence" -> "0.87"
    [] key = "active_nodes" -> "7"
    [] key = "avg_cpu_usage" -> "63.0"
    [] key = "total_connections" -> "1200"
    [] OTHER -> "0"

\* The payloads a client may send: every combination of these field values.
ReasonValues == {Absent, Str(PREDICTED), Str(FAILURE), Str("X")}
TimestampValues == {Absent, Str("t1")}
PredictionValues == {Absent, Null, Obj({}), Obj({"predicted_cpu_usage", "confidence"})}
NodeValues == { <<Absent, Absent>>, <<Str("n-42"), Str("10.0.0.5")>> }
FleetValues ==
  {Absent, Null, Str("degraded"), Obj({"other"})} \cup {Obj(ks) : ks \in SUBSET FleetKeys}

Payloads ==
  { [reason |-> rs, timestamp |-> ts, prediction_info |-> pi,
     failed_node_id |-> nd[1], failed_node_ip |-> nd[2], fleet_metrics |-> fm] :
      rs \in ReasonValues, ts \in TimestampValues, pi \in PredictionValues,
      nd \in NodeValues, fm \in FleetValues }

EmptyPayload ==
  [reason |-> Absent, timestamp |-> Absent, prediction_info |-> Absent,
   failed_node_id |-> Absent, failed_node_ip |-> Absent, fleet_metrics |-> Absent]

\* A request body: its bytes are valid UTF-8 or not, the text is malformed
\* JSON or a JSON value of some top-level type, and obj is the object's members.
NonObjectTops == {"array", "string", "number", "boolean", "null"}
Bodies ==
  { [enc |-> "utf8", json |-> "object", obj |-> p] : p \in Payloads }
  \cup { [enc |-> "utf8", json |-> t, obj |-> EmptyPayload] :
           t \in NonObjectTops \cup {"malformed"} }
  \cup { [enc |-> "invalid", json |-> "malformed", obj |-> EmptyPayload] }

\* The bodies of the stream specification: one for each shape of audit record.
StreamBodies ==
  { b \in Bodies :
      /\ b.obj.timestamp = Absent
      /\ b.obj.failed_node_id = Absent
      /\ b.obj.prediction_info \in {Absent, Null}
      /\ b.obj.fleet_metrics \in {Absent, Str("degraded"), Obj({"active_nodes"})}
      /\ b.json \in {"object", "malformed"} }

\* post_data before the body is read
NoBody == [enc |-> "unread", json |-> "unread", obj |-> EmptyPayload]

\* The Content-Length header of a request.
ContentLengths == {"ok", "missing", "not_a_number"}

----------------------------------------------------------------------------
VARIABLES
  backlog,     \* connections waiting in the listening socket, oldest first
  pc,          \* where each request is: idle, pending, a step of do_POST, exited, closed
  body,        \* post_data
  payload,     \* the decoded JSON object
  reason,      \* local of do_POST
  timestamp,   \* local of do_POST
  exc,         \* the exception being handled, "" when none
  fieldsRead,  \* the top-level keys do_POST has looked up
  record,      \* the audit lines the request has printed, with their text
  stdout,      \* the process output stream: <<request, kind>> of every line
  delays,      \* how many times the request has slept
  response     \* what was sent to the client

vars ==
  <<backlog, pc, body, payload, reason, timestamp, exc, fieldsRead, record,
    stdout, delays, response>>

NoResponse == [status |-> 0, ctype |-> "", body |-> ""]

\* send_response(200), Content-type header, json.dumps(response)
SuccessResponse ==
  [status |-> 200, ctype |-> "application/json",
   body |-> "{\"status\": \"success\", \"message\": \"Provisioning initiated\"}"]

\* Mutant: the except block answers with a JSON error document.
ErrorResponseWithBody ==
  [status |-> 400, ctype |-> "application/json", body |-> "{\"status\": \"error\"}"]

\* send_response(400), end_headers(): no header of ours, no body
ErrorResponse == [status |-> 400, ctype |-> "", body |-> ""]

Line(kind, text) == [kind |-> kind, text |-> text]

----------------------------------------------------------------------------
(* Python semantics used by do_POST *)

\* Mutant: dict.get(key) with the default forgotten, which yields None.
GetWithoutDefault(d, key, default) == IF d[key] = Absent THEN Null ELSE d[key]

\* dict.get(key, default) on the decoded JSON object
Get(d, key, default) == IF d[key] = Absent THEN default ELSE d[key]

\* dict.get(key, 'N/A') on a sub-object
MemberGet(v, key) == IF key \in v.keys THEN MemberValue(key) ELSE "N/A"

\* only a dict has .get: any other value raises AttributeError
HasGet(v) == v.type = "obj"

\* truth value of a Python object
Truthy(v) ==
  CASE v.type = "obj" -> v.keys # {}
    [] v.type = "str" -> v.str # ""
    [] OTHER -> FALSE

\* str() of a value inside an f-string
Format(v) ==
  CASE v.type = "str" -> v.str
    [] v.type = "null" -> "None"
    [] v.type = "obj" -> IF v.keys = {} THEN "{}" ELSE "{...}"
    [] OTHER -> ""

\* The exception lines 18-20 raise on a body, "" when they raise none.
DecodeFault(b) ==
  IF b.enc # "utf8" THEN "UnicodeDecodeError"
  ELSE IF b.json = "malformed" THEN "JSONDecodeError"
  ELSE IF b.json # "object" THEN "AttributeError"
  ELSE ""

\* int(self.headers['Content-Length']) outside the try block
HeaderFault(h) ==
  CASE h = "missing" -> "TypeError"
    [] h = "not_a_number" -> "ValueError"
    [] OTHER -> ""

----------------------------------------------------------------------------
(* The blocks of the audit record.  A block is the lines printed and the   *)
(* exception raised after them ("" when none).                             *)

HeaderLines(rsn, ts) ==
  << Line("PROVISIONING WEBHOOK RECEIVED", ""),
     Line("Reason", Format(rsn)),
     Line("Timestamp", Format(ts)) >>

\* Mutant: the elif on UNEXPECTED_NODE_FAILURE written as a plain else.
VariantOfElse(rsn) == IF rsn = Str(PREDICTED) THEN "prediction" ELSE "node_failure"

\* which branch of the if/elif on reason runs
VariantOf(rsn) ==
  IF rsn = Str(PREDICTED) THEN "prediction"
  ELSE IF rsn = Str(FAILURE) THEN "node_failure"
  ELSE "none"

\* the top-level keys the chosen branch looks up
VariantReads(rsn) ==
  CASE VariantOf(rsn) = "prediction" -> {"prediction_info"}
    [] VariantOf(rsn) = "node_failure" -> {"failed_node_id", "failed_node_ip"}
    [] OTHER -> {}

PredictionBlock(p) ==
  LET prediction_info == Get(p, "prediction_info", Obj({})) IN
  IF HasGet(prediction_info)
  THEN [lines |->
          << Line("ML PREDICTION", ""),
             Line("Predicted CPU", MemberGet(prediction_info, "predicted_cpu_usage")),
             Line("Horizon", MemberGet(prediction_info, "prediction_horizon_minutes")),
             Line("Confidence", MemberGet(prediction_info, "confidence")) >>,
        exc |-> ""]
  ELSE [lines |-> << Line("ML PREDICTION", "") >>, exc |-> "AttributeError"]

NodeFailureBlock(p) ==
  [lines |->
     << Line("SELF-HEALING TRIGGERED", ""),
        Line("Failed Node ID", Format(Get(p, "failed_node_id", Str("unknown")))),
        Line("Failed Node IP", Format(Get(p, "failed_node_ip", Str("unknown")))),
        Line("Provisioning replacement node", "") >>,
   exc |-> ""]

NoBlock == [lines |-> << >>, exc |-> ""]

VariantBlock(p, rsn) ==
  CASE VariantOf(rsn) = "prediction" -> PredictionBlock(p)
    [] VariantOf(rsn) = "node_failure" -> NodeFailureBlock(p)
    [] OTHER -> NoBlock

\* Mutant: the block guarded by "is not None" instead of by truth value.
FleetBlockIfPresent(p) ==
  LET fleet_metrics == Get(p, "fleet_metrics", Null) IN
  IF fleet_metrics = Null THEN NoBlock
  ELSE IF HasGet(fleet_metrics)
  THEN [lines |->
          << Line("Fleet Status", ""),
             Line("Active Nodes", MemberGet(fleet_metrics, "active_nodes")),
             Line("Avg CPU", MemberGet(fleet_metrics, "avg_cpu_usage")),
             Line("Total Connections", MemberGet(fleet_metrics, "total_connections")) >>,
        exc |-> ""]
  ELSE [lines |-> << Line("Fleet Status", "") >>, exc |-> "AttributeError"]

FleetBlock(p) ==
  LET fleet_metrics == Get(p, "fleet_metrics", Obj({})) IN
  IF ~Truthy(fleet_metrics) THEN NoBlock
  ELSE IF HasGet(fleet_metrics)
  THEN [lines |->
          << Line("Fleet Status", ""),
             Line("Active Nodes", MemberGet(fleet_metrics, "active_nodes")),
             Line("Avg CPU", MemberGet(fleet_metrics, "avg_cpu_usage")),
             Line("Total Connections", MemberGet(fleet_metrics, "total_connections")) >>,
        exc |-> ""]
  ELSE [lines |-> << Line("Fleet Status", "") >>, exc |-> "AttributeError"]

SuccessLine == Line("Webhook processed successfully", "")
ErrorLine(e) == Line("Error processing webhook", e)

\* log_message, called by send_response through log_request
AccessLine(status) == Line("log_message", IF status = 200 THEN "200" ELSE "400")

\* Mutant: the fleet-metrics statements moved above the if/elif on reason.
NextStepFleetFirst(step) ==
  CASE step = "decode" -> "fleet"
    [] step = "fleet" -> "variant"
    [] step = "variant" -> "success"
    [] step = "success" -> "sleep"
    [] step = "sleep" -> "respond"
    [] OTHER -> "exited"

\* the statement order of the try block
NextStep(step) ==
  CASE step = "decode" -> "variant"
    [] step = "variant" -> "fleet"
    [] step = "fleet" -> "success"
    [] step = "success" -> "sleep"
    [] step = "sleep" -> "respond"
    [] OTHER -> "exited"

\* Mutant: the sleep moved into the UNEXPECTED_NODE_FAILURE branch.
DelayOnlyOnNodeFailure(rsn) == rsn = Str(FAILURE)

\* time.sleep(1) is reached on every path through the try block
DelayApplies(rsn) == TRUE

\* the request is inside do_POST
InHandler(r) == pc[r] \notin {"idle", "pending", "closed"}

\* Mutant: ThreadingHTTPServer, one thread per connection.
CanAcceptThreaded == TRUE

\* HTTPServer.serve_forever handles one request at a time: it accepts the
\* next connection only when no request is inside the handler.
CanAccept == \A r \in Requests : ~InHandler(r)

----------------------------------------------------------------------------
Init ==
  /\ backlog = << >>
  /\ pc = [r \in Requests |-> "idle"]
  /\ body = [r \in Requests |-> NoBody]
  /\ payload = [r \in Requests |-> EmptyPayload]
  /\ reason = [r \in Requests |-> Absent]
  /\ timestamp = [r \in Requests |-> Absent]
  /\ exc = [r \in Requests |-> ""]
  /\ fieldsRead = [r \in Requests |-> {}]
  /\ record = [r \in Requests |-> << >>]
  /\ stdout = << >>
  /\ delays = [r \in Requests |-> 0]
  /\ response = [r \in Requests |-> NoResponse]

\* print(): the lines go to the request's record and to the shared stream
Emit(r, lines) ==
  /\ record' = [record EXCEPT ![r] = @ \o lines]
  /\ stdout' = stdout \o [i \in 1..Len(lines) |-> <<r, lines[i].kind>>]

\* A client connects; requests are numbered in the order they connect.
Connect(r) ==
  /\ pc[r] = "idle"
  /\ \A q \in Requests : q < r => pc[q] # "idle"
  /\ pc' = [pc EXCEPT ![r] = "pending"]
  /\ backlog' = Append(backlog, r)
  /\ UNCHANGED <<body, payload, reason, timestamp, exc, fieldsRead, record,
                 stdout, delays, response>>

\* serve_forever accepts the oldest waiting connection and calls do_POST.
Accept(r) ==
  /\ CanAccept
  /\ backlog # << >>
  /\ r = Head(backlog)
  /\ backlog' = Tail(backlog)
  /\ pc' = [pc EXCEPT ![r] = "read"]
  /\ UNCHANGED <<body, payload, reason, timestamp, exc, fieldsRead, record,
                 stdout, delays, response>>

\* Lines 14-15 with a usable Content-Length: the body is read.
ReadRequest(r, B) ==
  /\ pc[r] = "read"
  /\ \E b \in B : body' = [body EXCEPT ![r] = b]
  /\ pc' = [pc EXCEPT ![r] = "decode"]
  /\ UNCHANGED <<backlog, payload, reason, timestamp, exc, fieldsRead, record,
                 stdout, delays, response>>

\* Lines 14-15 raising: they stand outside the try block, so the exception
\* leaves do_POST and the server closes the connection without a response.
ReadFault(r) ==
  /\ pc[r] = "read"
  /\ \E h \in ContentLengths :
       /\ HeaderFault(h) # ""
       /\ exc' = [exc EXCEPT ![r] = HeaderFault(h)]
  /\ pc' = [pc EXCEPT ![r] = "exited"]
  /\ UNCHANGED <<backlog, body, payload, reason, timestamp, fieldsRead, record,
                 stdout, delays, response>>

\* Lines 18-24: json.loads, the two lookups and the head of the record.
Decode(r) ==
  /\ pc[r] = "decode"
  /\ IF DecodeFault(body[r]) # ""
     THEN /\ exc' = [exc EXCEPT ![r] = DecodeFault(body[r])]
          /\ pc' = [pc EXCEPT ![r] = "except"]
          /\ UNCHANGED <<payload, reason, timestamp, fieldsRead, record, stdout>>
     ELSE LET p == body[r].obj
              rsn == Get(p, "reason", Str("unknown"))
              ts == Get(p, "timestamp", Str("unknown"))
          IN /\ payload' = [payload EXCEPT ![r] = p]
             /\ reason' = [reason EXCEPT ![r] = rsn]
             /\ timestamp' = [timestamp EXCEPT ![r] = ts]
             /\ fieldsRead' = [fieldsRead EXCEPT ![r] = {"reason", "timestamp"}]
             /\ Emit(r, HeaderLines(rsn, ts))
             /\ pc' = [pc EXCEPT ![r] = NextStep("decode")]
             /\ exc' = exc
  /\ UNCHANGED <<backlog, body, delays, response>>

\* A block of the record: its lines are printed, then it raises or goes on.
RunBlock(r, step, blk, reads) ==
  /\ pc[r] = step
  /\ fieldsRead' = [fieldsRead EXCEPT ![r] = @ \cup reads]
  /\ Emit(r, blk.lines)
  /\ exc' = [exc EXCEPT ![r] = blk.exc]
  /\ pc' = [pc EXCEPT ![r] = IF blk.exc # "" THEN "except" ELSE NextStep(step)]
  /\ UNCHANGED <<backlog, body, payload, reason, timestamp, delays, response>>

\* Lines 26-39
Variant(r) ==
  RunBlock(r, "variant", VariantBlock(payload[r], reason[r]), VariantReads(reason[r]))

\* Lines 41-46
Fleet(r) == RunBlock(r, "fleet", FleetBlock(payload[r]), {"fleet_metrics"})

\* Line 48
Success(r) == RunBlock(r, "success", [lines |-> <<SuccessLine>>, exc |-> ""], {})

\* Line 51
Delay(r) ==
  /\ pc[r] = "sleep"
  /\ delays' = [delays EXCEPT ![r] = IF DelayApplies(reason[r]) THEN @ + 1 ELSE @]
  /\ pc' = [pc EXCEPT ![r] = NextStep("sleep")]
  /\ UNCHANGED <<backlog, body, payload, reason, timestamp, exc, fieldsRead,
                 record, stdout, response>>

\* Lines 53-57
Respond(r) ==
  /\ pc[r] = "respond"
  /\ response' = [response EXCEPT ![r] = SuccessResponse]
  /\ stdout' = Append(stdout, <<r, AccessLine(200).kind>>)
  /\ pc' = [pc EXCEPT ![r] = NextStep("respond")]
  /\ UNCHANGED <<backlog, body, payload, reason, timestamp, exc, fieldsRead,
                 record, delays>>

\* Lines 59-62
HandleError(r) ==
  /\ pc[r] = "except"
  /\ record' = [record EXCEPT ![r] = Append(@, ErrorLine(exc[r]))]
  /\ stdout' = stdout \o << <<r, ErrorLine(exc[r]).kind>>, <<r, AccessLine(400).kind>> >>
  /\ response' = [response EXCEPT ![r] = ErrorResponse]
  /\ pc' = [pc EXCEPT ![r] = "exited"]
  /\ UNCHANGED <<backlog, body, payload, reason, timestamp, exc, fieldsRead, delays>>

\* The server shuts the connection down and drops the handler object.
Finish(r) ==
  /\ pc[r] = "exited"
  /\ pc' = [pc EXCEPT ![r] = "closed"]
  /\ body' = [body EXCEPT ![r] = NoBody]
  /\ payload' = [payload EXCEPT ![r] = EmptyPayload]
  /\ reason' = [reason EXCEPT ![r] = Absent]
  /\ timestamp' = [timestamp EXCEPT ![r] = Absent]
  /\ exc' = [exc EXCEPT ![r] = ""]
  /\ fieldsRead' = [fieldsRead EXCEPT ![r] = {}]
  /\ record' = [record EXCEPT ![r] = << >>]
  /\ delays' = [delays EXCEPT ![r] = 0]
  /\ response' = [response EXCEPT ![r] = NoResponse]
  /\ UNCHANGED <<backlog, stdout>>

NextOver(B) ==
  \E r \in Requests :
    \/ Connect(r)
    \/ Accept(r)
    \/ ReadRequest(r, B)
    \/ ReadFault(r)
    \/ Decode(r)
    \/ Variant(r)
    \/ Fleet(r)
    \/ Success(r)
    \/ Delay(r)
    \/ Respond(r)
    \/ HandleError(r)
    \/ Finish(r)

Next == NextOver(Bodies)
NextStream == NextOver(StreamBodies)

\* Every payload, requests one after another.
Spec == Init /\ [][Next]_vars

\* One body per shape of audit record: the specification of the shared stream.
SpecStream == Init /\ [][NextStream]_vars

----------------------------------------------------------------------------
(* Helpers of the properties *)

\* the request's body decoded to a JSON object
IsObjectBody(r) == body[r].enc = "utf8" /\ body[r].json = "object"

\* the request's body was read and is not UTF-8 or not a JSON object
IsBadBody(r) ==
  \/ body[r].enc = "invalid"
  \/ body[r].enc = "utf8" /\ body[r].json # "object"

Kinds(r) == { record[r][i].kind : i \in 1..Len(record[r]) }

PredictionKinds == {"ML PREDICTION", "Predicted CPU", "Horizon", "Confidence"}
NodeFailureKinds ==
  {"SELF-HEALING TRIGGERED", "Failed Node ID", "Failed Node IP",
   "Provisioning replacement node"}
FleetKinds == {"Fleet Status", "Active Nodes", "Avg CPU", "Total Connections"}
AuditKinds ==
  {"PROVISIONING WEBHOOK RECEIVED", "Reason", "Timestamp",
   "Webhook processed successfully", "Error processing webhook"}
    \cup PredictionKinds \cup NodeFailureKinds \cup FleetKinds

\* the lines of the request that belong to the fleet-metrics block, in order
FleetLinesOf(r) == SelectSeq(record[r], LAMBDA l : l.kind \in FleetKinds)

\* the fleet-metrics block the specification describes for an object with keys ks
ExpectedFleetLines(ks) ==
  << [kind |-> "Fleet Status", text |-> ""],
     [kind |-> "Active Nodes", text |-> IF "active_nodes" \in ks THEN "7" ELSE "N/A"],
     [kind |-> "Avg CPU", text |-> IF "avg_cpu_usage" \in ks THEN "63.0" ELSE "N/A"],
     [kind |-> "Total Connections",
      text |-> IF "total_connections" \in ks THEN "1200" ELSE "N/A"] >>

\* the prediction block raises on this payload (a prediction_info that is no object)
PredictionFaults(p) ==
  p.reason = Str(PREDICTED) /\ p.prediction_info.type \notin {"absent", "obj"}

\* the fleet block raises on this payload (a fleet_metrics that is true and no object)
FleetFaults(p) == p.fleet_metrics.type = "str" /\ p.fleet_metrics.str # ""

\* the position of a line in the order the specification gives the record
Rank(kind) ==
  CASE kind = "PROVISIONING WEBHOOK RECEIVED" -> 0
    [] kind = "Reason" -> 1
    [] kind = "Timestamp" -> 2
    [] kind \in {"ML PREDICTION", "SELF-HEALING TRIGGERED"} -> 3
    [] kind \in {"Predicted CPU", "Failed Node ID"} -> 4
    [] kind \in {"Horizon", "Failed Node IP"} -> 5
    [] kind \in {"Confidence", "Provisioning replacement node"} -> 6
    [] kind = "Fleet Status" -> 7
    [] kind = "Active Nodes" -> 8
    [] kind = "Avg CPU" -> 9
    [] kind = "Total Connections" -> 10
    [] kind = "Webhook processed successfully" -> 11
    [] OTHER -> 12

----------------------------------------------------------------------------
(* C1 *)

\* C1 (as claimed): every request whose body decodes to a JSON object, whatever
\* the types of its fields, is answered 200 with Content-Type application/json
\* and the fixed success body.
C1_ObjectBodyAlwaysSucceeds ==
  \A r \in Requests :
    pc[r] = "exited" /\ IsObjectBody(r) =>
      response[r] =
        [status |-> 200, ctype |-> "application/json",
         body |-> "{\"status\": \"success\", \"message\": \"Provisioning initiated\"}"]

----------------------------------------------------------------------------
(* C2 *)

\* C2: a request whose body is not valid UTF-8 or is not a JSON object is never
\* answered 200, and when do_POST returns it has been answered 400 with an empty
\* body and no Content-Type header.
C2_BadBodyAnswered400 ==
  \A r \in Requests :
    IsBadBody(r) =>
      /\ response[r].status # 200
      /\ pc[r] = "exited" => response[r] = [status |-> 400, ctype |-> "", body |-> ""]

C2_Witness ==
  \E r \in Requests :
    /\ pc[r] = "exited"
    /\ body[r].enc = "utf8" /\ body[r].json = "array"
    /\ response[r].status = 400

----------------------------------------------------------------------------
(* C3 *)

\* C3 (as claimed): every request that reaches do_POST ends answered 200 or 400,
\* also when reading the Content-Length header or the body raises.
C3_EveryRequestAnswered ==
  \A r \in Requests : pc[r] = "exited" => response[r].status \in {200, 400}

----------------------------------------------------------------------------
(* C4 *)

\* C4 (as claimed): while a request is inside the one-second delay, the server
\* can accept the oldest waiting connection and start handling it.
C4_AcceptsDuringDelay ==
  \A r, s \in Requests :
    pc[r] = "sleep" /\ backlog # << >> /\ s = Head(backlog) => ENABLED Accept(s)

----------------------------------------------------------------------------
(* C5 *)

\* C5 (as claimed): when the payload carries a fleet_metrics object, also the
\* one with none of the sub-fields, the fleet-metrics block is logged with its
\* three value lines, N/A for each absent sub-field.  Stated of the requests
\* that were answered 200, whose record is complete.
C5_FleetBlockForEveryObject ==
  \A r \in Requests :
    /\ pc[r] = "exited"
    /\ response[r].status = 200
    /\ body[r].obj.fleet_metrics.type = "obj"
    => FleetLinesOf(r) = ExpectedFleetLines(body[r].obj.fleet_metrics.keys)

\* C5 (amended): when the payload carries a non-empty fleet_metrics object, a
\* request that got past the fleet-metrics step has logged the block with all
\* three value lines, N/A for each absent sub-field independently, and every
\* such request gets there unless its prediction block raised first; when
\* fleet_metrics is absent or the empty object no line of the block is logged.
C5_FleetBlockForNonEmptyObject ==
  \A r \in Requests :
    IsObjectBody(r) =>
      LET fm == body[r].obj.fleet_metrics IN
      /\ fm.type = "obj" /\ fm.keys # {} /\ pc[r] \in {"success", "sleep", "respond"} =>
           FleetLinesOf(r) = ExpectedFleetLines(fm.keys)
      /\ fm.type = "obj" /\ fm.keys # {} /\ pc[r] = "exited" =>
           \/ FleetLinesOf(r) = ExpectedFleetLines(fm.keys) /\ response[r].status = 200
           \/ PredictionFaults(body[r].obj) /\ FleetLinesOf(r) = << >>
      /\ fm = Absent \/ fm = Obj({}) => FleetLinesOf(r) = << >>

C5_Witness ==
  \E r \in Requests :
    /\ pc[r] = "exited"
    /\ body[r].obj.reason = Str("X")
    /\ body[r].obj.fleet_metrics = Obj({"active_nodes"})
    /\ FleetLinesOf(r) =
         << [kind |-> "Fleet Status", text |-> ""],
            [kind |-> "Active Nodes", text |-> "7"],
            [kind |-> "Avg CPU", text |-> "N/A"],
            [kind |-> "Total Connections", text |-> "N/A"] >>

----------------------------------------------------------------------------
(* C6 *)

\* C6: the lines of a request's audit record follow the order reason,
\* timestamp, variant block, fleet-metrics block, success marker: each line
\* printed later has a higher rank.
C6_RecordOrder ==
  \A r \in Requests :
    \A i, j \in 1..Len(record[r]) :
      i < j => Rank(record[r][i].kind) < Rank(record[r][j].kind)

C6_Witness ==
  \E r \in Requests :
    /\ reason[r] = Str(FAILURE)
    /\ "Provisioning replacement node" \in Kinds(r)
    /\ "Total Connections" \in Kinds(r)
    /\ "Webhook processed successfully" \in Kinds(r)

----------------------------------------------------------------------------
(* C7 *)

\* C7: with reason PREDICTED_HIGH_FLEET_CPU_LOAD the node-failure fields are
\* never looked up or logged, with reason UNEXPECTED_NODE_FAILURE
\* prediction_info is never looked up or logged, and with any other reason
\* neither block is.
C7_VariantsExclusive ==
  \A r \in Requests :
    LET nodeUsed ==
          \/ fieldsRead[r] \cap {"failed_node_id", "failed_node_ip"} # {}
          \/ Kinds(r) \cap NodeFailureKinds # {}
        predictionUsed ==
          \/ "prediction_info" \in fieldsRead[r]
          \/ Kinds(r) \cap PredictionKinds # {}
    IN /\ reason[r] = Str(PREDICTED) => ~nodeUsed
       /\ reason[r] = Str(FAILURE) => ~predictionUsed
       /\ reason[r] \notin {Str(PREDICTED), Str(FAILURE)} => ~nodeUsed /\ ~predictionUsed

C7_Witness ==
  \E r \in Requests :
    /\ pc[r] = "exited"
    /\ reason[r] = Str(PREDICTED)
    /\ payload[r].failed_node_id # Absent
    /\ payload[r].failed_node_ip # Absent
    /\ "Confidence" \in Kinds(r)
    /\ response[r].status = 200

----------------------------------------------------------------------------
(* C8 *)

\* C8: a request sleeps at most once, only after its success marker is logged
\* and before any response is sent, and every request that logged the success
\* marker and returned has slept exactly once and was answered 200.
C8_OneDelayBeforeResponse ==
  \A r \in Requests :
    /\ delays[r] <= 1
    /\ delays[r] = 1 => "Webhook processed successfully" \in Kinds(r)
    /\ pc[r] = "sleep" => delays[r] = 0 /\ response[r].status = 0
    /\ response[r].status = 200 => delays[r] = 1
    /\ pc[r] = "exited" /\ "Webhook processed successfully" \in Kinds(r) =>
         delays[r] = 1 /\ response[r].status = 200

C8_Witness ==
  \E r \in Requests :
    /\ pc[r] = "exited"
    /\ reason[r] = Str("X")
    /\ delays[r] = 1
    /\ response[r].status = 200

----------------------------------------------------------------------------
(* C9 *)

\* C9: once a JSON-object body is decoded, the record starts with the received
\* line, then the reason line and the timestamp line, each showing the
\* payload's value or "unknown" when the field is missing, and a request that
\* fails does so only in a later block, never because a field is missing.
C9_ReasonTimestampDefaults ==
  \A r \in Requests :
    IsObjectBody(r) /\ pc[r] # "decode" =>
      LET p == body[r].obj IN
      /\ Len(record[r]) >= 3
      /\ record[r][2] =
           [kind |-> "Reason",
            text |-> IF p.reason = Absent THEN "unknown" ELSE p.reason.str]
      /\ record[r][3] =
           [kind |-> "Timestamp",
            text |-> IF p.timestamp = Absent THEN "unknown" ELSE p.timestamp.str]
      /\ response[r].status = 400 => PredictionFaults(p) \/ FleetFaults(p)

C9_Witness ==
  \E r \in Requests :
    /\ pc[r] = "exited"
    /\ IsObjectBody(r)
    /\ body[r].obj.reason = Absent
    /\ body[r].obj.timestamp = Str("t1")
    /\ record[r][2].text = "unknown"
    /\ record[r][3].text = "t1"
    /\ response[r].status = 200

----------------------------------------------------------------------------
(* C10 *)

\* C10: in the output stream, no line of another request stands between two
\* audit lines of one request.
C10_BlocksNotInterleaved ==
  \A i, k \in 1..Len(stdout) :
    /\ i < k
    /\ stdout[i][1] = stdout[k][1]
    /\ stdout[i][2] \in AuditKinds
    /\ stdout[k][2] \in AuditKinds
    => \A j \in i..k : stdout[j][1] = stdout[i][1]

\* a second request is waiting in the backlog while the first is in the middle
\* of its record
C10_Witness ==
  \E r, s \in Requests :
    /\ r # s
    /\ pc[r] \in {"variant", "fleet", "success"}
    /\ pc[s] = "pending"
    /\ \E i \in 1..Len(stdout) : stdout[i][1] = r /\ stdout[i][2] \in AuditKinds

====
